---- MODULE Spec2Model ----
(***************************************************************************)
(* A state-machine model of bandstop.py: the command-line file loop,       *)
(* process(), parse() with its window loop, find_outstanding_frequencies,  *)
(* extract_bandstop_frequencies, bandstop and gen_output_filename.         *)
(*                                                                         *)
(* Numbers the script holds as floats are kept exact: a running average    *)
(* s/n is compared by cross-multiplication, a quotient is a pair           *)
(* <<numerator, denominator>>.  The magnitude spectrum of a window is not  *)
(* computed by an FFT here: a channel is a finite sum of sinusoids whose   *)
(* frequencies fall on a bin of the window (a whole number of cycles per   *)
(* window), so its magnitude spectrum is a spike per sinusoid and zero     *)
(* elsewhere.                                                              *)
(***************************************************************************)
EXTENDS Integers, Sequences, FiniteSets, TLC

VARIABLES
    pc,               \* position of the script
    argv,             \* sys.argv[1:], a sequence of input files
    fidx,             \* index of the file the loop at line 195 is at
    attempted,        \* indexes of the files process() was called on
    written,          \* paths wavfile.write has written
    error,            \* the uncaught exception that ended the script, or "none"
    snd,              \* the channel being parsed: [fs, samples, sig]
    chan,             \* c of the channel loop at line 51
    signals_to_save,  \* per cleaned channel, the filters applied to it
    tie,              \* how argpartition orders equal elements in this build
    win_i,            \* i of the window loop at line 165
    windows,          \* the windows visited so far, <<start, length>> each
    sel,              \* the last window's selected bins and candidates
    per_window,       \* number of candidates each window emitted
    candidate_frequencies,
    final,            \* clusters of extract_bandstop_frequencies
    ext_k,            \* candidates consumed by the loop at line 110
    bandstop_frequencies,
    bs_k,             \* bands consumed by the loop at line 140
    divisions,        \* the divisors of every division by dist evaluated
    filters,          \* <<w0, Q>> of every filter applied to the channel
    filename,         \* argument of gen_output_filename
    output_filename   \* its result

vars == <<pc, argv, fidx, attempted, written, error, snd, chan, signals_to_save,
          tie, win_i, windows, sel, per_window, candidate_frequencies, final,
          ext_k, bandstop_frequencies, bs_k, divisions, filters, filename,
          output_filename>>

fileVars == <<argv, fidx, attempted, written, chan, signals_to_save>>
nameVars == <<filename, output_filename>>
windowVars == <<win_i, windows, sel, per_window>>
extractVars == <<final, ext_k>>
bandstopVars == <<bs_k, divisions, filters>>

----------------------------------------------------------------------------
(* Program constants, lines 20-23.                                         *)
FFT_SAMPLE_SIZE == 10000
FREQUENCY_MAXIMUM_DIFFERENTIATING_DIFFERENCE == 50
FREQUENCY_BANDSTOP_MARGIN == 50
FREQUENCY_MINIMUM_COUNT == 20
num_outstanding == 3
MinDist == 10

(* Bounds of the model.                                                    *)
MaxBase == 3
Repeat == 11

Abs(x) == IF x < 0 THEN 0 - x ELSE x
Min2(a, b) == IF a < b THEN a ELSE b
Max2(a, b) == IF a > b THEN a ELSE b

RECURSIVE SumSeq(_)
SumSeq(s) == IF s = <<>> THEN 0 ELSE Head(s) + SumSeq(Tail(s))

----------------------------------------------------------------------------
(* gen_output_filename, lines 28-30.  A path is a sequence of characters.  *)
OutSuffix == <<"-", "o", "u", "t", ".", "w", "a", "v">>

\* The pattern \.[^.]+$ matches at p: a dot, then one or more non-dots, then the end.
PatternMatchesAt(s, p) ==
    /\ s[p] = "."
    /\ p < Len(s)
    /\ \A j \in (p + 1)..Len(s) : s[j] # "."

\* re.sub replaces the leftmost match (there is at most one, since it runs to
\* the end) and returns the string unchanged when nothing matches.
gen_output_filename(s) ==
    LET hits == {p \in 1..Len(s) : PatternMatchesAt(s, p)}
    IN  IF hits = {} THEN s
        ELSE LET p == CHOOSE q \in hits : \A r \in hits : q <= r
             IN  SubSeq(s, 1, p - 1) \o OutSuffix

----------------------------------------------------------------------------
(* extract_bandstop_frequencies, lines 104-133.  A cluster is              *)
(* [data |-> <<sumLow, sumHigh>>, count |-> n, members |-> indexes of the  *)
(* candidates merged into it] (members is history, not read by the code).  *)

\* lines 106-107
Expand(c) == <<c[1] - FREQUENCY_BANDSTOP_MARGIN, c[2] + FREQUENCY_BANDSTOP_MARGIN>>

NearLoose(c, f) ==
    Abs((c[1] + c[2]) * f.count - (f.data[1] + f.data[2]))
        <= 2 * FREQUENCY_MAXIMUM_DIFFERENTIATING_DIFFERENCE * f.count

\* lines 111, 114-115: abs(avg - favg) < 50, with avg = (c0+c1)/2 and
\* favg = (s0+s1)/(2*count), both sides multiplied by 2*count.
Near(c, f) ==
    Abs((c[1] + c[2]) * f.count - (f.data[1] + f.data[2]))
        < 2 * FREQUENCY_MAXIMUM_DIFFERENTIATING_DIFFERENCE * f.count

MergeNoCount(f, c, k) ==
    [data |-> <<f.data[1] + c[1], f.data[2] + c[2]>>,
     count |-> f.count,
     members |-> Append(f.members, k)]

\* lines 116-117
Merge(f, c, k) ==
    [data |-> <<f.data[1] + c[1], f.data[2] + c[2]>>,
     count |-> f.count + 1,
     members |-> Append(f.members, k)]

RECURSIVE PlaceFrom(_, _, _, _)
\* lines 112-124: one iteration of the loop over the candidates, scanning the
\* clusters from the j-th on; the first near cluster takes the candidate.
PlaceFrom(fin, c, k, j) ==
    IF j > Len(fin)
    THEN Append(fin, [data |-> c, count |-> 1, members |-> <<k>>])
    ELSE IF Near(c, fin[j])
         THEN [fin EXCEPT ![j] = Merge(fin[j], c, k)]
         ELSE PlaceFrom(fin, c, k, j + 1)

\* lines 126-131: the clusters with more than the minimum count, as the
\* band <<sumLow, sumHigh, count>> standing for (sumLow/count, sumHigh/count).
RECURSIVE Surviving(_)
Surviving(fin) ==
    IF fin = <<>> THEN <<>>
    ELSE LET f == Head(fin)
         IN  (IF f.count > FREQUENCY_MINIMUM_COUNT
              THEN << <<f.data[1], f.data[2], f.count>> >>
              ELSE <<>>) \o Surviving(Tail(fin))

----------------------------------------------------------------------------
(* The spectrum of a window, lines 167-170.  snd.sig is a sequence of      *)
(* sinusoids [f |-> Hz, a |-> amplitude]; in a window of n samples the     *)
(* sinusoid at f falls on bin f*n/fs.                                      *)

\* line 161
points_per_sample(fs) == (FFT_SAMPLE_SIZE * fs) \div 1000

\* len(real_data): fft_data[:(len(fft_data)//2 - 1)]
RealLen(n) == Max2(0, (n \div 2) - 1)

\* real_data[i], 0-based
RealAt(s, n, i) ==
    SumSeq([k \in 1..Len(s.sig) |->
              IF s.sig[k].f * n = i * s.fs THEN s.sig[k].a ELSE 0])

\* line 65: len(np.diff(data)) and diff_data[i]
DiffLen(n) == Max2(0, RealLen(n) - 1)
DiffAt(s, n, i) == RealAt(s, n, i + 1) - RealAt(s, n, i)

low_band_none(s) == 0

\* line 66
low_band(s) == points_per_sample(s.fs) \div 4

----------------------------------------------------------------------------
(* find_outstanding_frequencies, lines 63-102.                             *)

\* the array argpartition works on, diff_data[low_band:] (sign 1) or
\* -diff_data[low_band:] (sign -1), as a function of the bin in diff_data
DiffTail(s, n, sign) ==
    [i \in low_band(s)..(DiffLen(n) - 1) |-> sign * DiffAt(s, n, i)]

\* np.argpartition(x, -3)[-3:] holds three indexes whose elements are no
\* smaller than every other element; which of several equal elements it
\* holds, and in which order, is the build's choice: pick "first" takes the
\* lowest tied indexes, "last" the highest.

\* the third largest element of d
Third(d) ==
    CHOOSE v \in {d[i] : i \in DOMAIN d} :
        /\ Cardinality({i \in DOMAIN d : d[i] >= v}) >= num_outstanding
        /\ Cardinality({i \in DOMAIN d : d[i] > v}) < num_outstanding

RECURSIVE ScanTies(_, _, _, _, _)
ScanTies(d, v, i, step, need) ==
    IF need = 0 \/ i \notin DOMAIN d THEN {}
    ELSE IF d[i] = v
         THEN {i} \cup ScanTies(d, v, i + step, step, need - 1)
         ELSE ScanTies(d, v, i + step, step, need)

RECURSIVE SortAsc(_)
SortAsc(S) ==
    IF S = {} THEN <<>>
    ELSE LET m == CHOOSE x \in S : \A y \in S : x <= y
         IN  <<m>> \o SortAsc(S \ {m})

Reverse(q) == [k \in 1..Len(q) |-> q[Len(q) + 1 - k]]

\* the bins above the third largest element, then tied bins to make three
Selected(d, v3, must, lo, hi, pick) ==
    must \cup (IF pick = "first"
               THEN ScanTies(d, v3, lo, 1, num_outstanding - Cardinality(must))
               ELSE ScanTies(d, v3, hi, -1, num_outstanding - Cardinality(must)))

TopOf(d, v3, lo, hi, pick) ==
    Selected(d, v3, {i \in DOMAIN d : d[i] > v3}, lo, hi, pick)

Ordered(asc, order) == IF order = "asc" THEN asc ELSE Reverse(asc)

TopIn(d, lo, hi, pick, order) ==
    Ordered(SortAsc(TopOf(d, Third(d), lo, hi, pick)), order)

\* lines 72 and 74: the selected bins, as indexes of diff_data
TopBins(s, n, sign, pick, order) ==
    TopIn(DiffTail(s, n, sign), low_band(s), DiffLen(n) - 1, pick, order)

\* lines 77-78
Normalize(ind, s) == (ind * s.fs) \div points_per_sample(s.fs)

CloseLoose(ind1, ind2) ==
    Abs(ind1 - ind2) <= FREQUENCY_MAXIMUM_DIFFERENTIATING_DIFFERENCE

\* line 99, on the normalized values
Close(ind1, ind2) ==
    Abs(ind1 - ind2) < FREQUENCY_MAXIMUM_DIFFERENTIATING_DIFFERENCE

OrderPairRaw(ind1, ind2) == <<ind1, ind2>>

\* line 100
OrderPair(ind1, ind2) == IF ind2 > ind1 THEN <<ind1, ind2>> ELSE <<ind2, ind1>>

\* argpartition raises ValueError when fewer than 3 elements are left
TooShort(s, n) == DiffLen(n) - low_band(s) < num_outstanding

\* lines 96-102: for ind1 in high_ind: for ind2 in low_ind
Pairs(low_ind, high_ind) ==
    [p \in 1..(num_outstanding * num_outstanding) |->
        <<high_ind[((p - 1) \div num_outstanding) + 1],
          low_ind[((p - 1) % num_outstanding) + 1]>>]

Emitted(kept) == [k \in 1..Len(kept) |-> OrderPair(kept[k][1], kept[k][2])]

Candidates(pairs) == Emitted(SelectSeq(pairs, LAMBDA pr : Close(pr[1], pr[2])))

FindFrom(s, low_sel, high_sel, low_ind, high_ind) ==
    [low_sel |-> low_sel, high_sel |-> high_sel,
     low_ind |-> low_ind, high_ind |-> high_ind,
     ret |-> Candidates(Pairs(low_ind, high_ind))]

Normalized(sel_bins, s) == [k \in 1..Len(sel_bins) |-> Normalize(sel_bins[k], s)]

FindSel(s, low_sel, high_sel) ==
    FindFrom(s, low_sel, high_sel, Normalized(low_sel, s), Normalized(high_sel, s))

find_outstanding_frequencies(s, n, t) ==
    FindSel(s, TopBins(s, n, 1, t.low, t.order), TopBins(s, n, -1, t.high, t.order))

----------------------------------------------------------------------------
(* bandstop, lines 139-155.  A band ft is <<sumLow, sumHigh, count>> for   *)
(* (sumLow/count, sumHigh/count); a quotient is <<numerator, denominator>>.*)
(* The bands are numpy float64 values, so a division by zero yields inf or *)
(* nan with a warning and the loop goes on.                                *)

\* line 145: dist = abs(ft[0] - ft[1]), as a quotient over ft's count
Dist(ft) == <<Abs(ft[1] - ft[2]), ft[3]>>

\* lines 147-148: if dist < 10: dist = 10
Clamped(d) == IF d[1] < MinDist * d[2] THEN <<MinDist * d[2], d[2]>> ELSE d

\* lines 143-151 for one band: the divisors of the two divisions by dist
\* (line 146 before the clamp, lines 150-151 after it) and the filter's
\* parameters w0 = center/(fs/2) and Q = 2*center/dist.
BandstopOne(ft, fs) ==
    LET twoCenter == <<ft[1] + ft[2], ft[3]>>
        d == Dist(ft)
        dc == Clamped(d)
    IN  [divisors |-> <<d, dc>>,
         w0 |-> <<twoCenter[1], twoCenter[2] * fs>>,
         Q |-> <<twoCenter[1] * dc[2], twoCenter[2] * dc[1]>>]

----------------------------------------------------------------------------
(* Inputs.                                                                 *)

MaxFiles == 2
MaxWindows == 3
MaxBands == 2

NoSel == [low_sel |-> <<>>, high_sel |-> <<>>, low_ind |-> <<>>,
          high_ind |-> <<>>, ret |-> <<>>]
NoSnd == [fs |-> 0, samples |-> 0, sig |-> <<>>]

Zero == <<>>
Tone(f) == << [f |-> f, a |-> 1] >>

TiePool == [low : {"first", "last"}, high : {"first", "last"},
            order : {"asc", "desc"}]

File(name, readable, depth_ok, writable, fs, samples, chans) ==
    [name |-> name, readable |-> readable, depth_ok |-> depth_ok,
     writable |-> writable, fs |-> fs, samples |-> samples, chans |-> chans]

NamePool == { <<"a", ".", "a">>, <<"a">>, <<"a", ".">>, <<".", "a">>,
              <<"a", ".", "/", "a">> }

FilePool ==
    { File(nm, TRUE, TRUE, TRUE, 24, 240, <<Zero>>) : nm \in NamePool }
    \cup { File(<<"a", ".", "a">>, FALSE, TRUE, TRUE, 24, 240, <<Zero>>),
           File(<<"a", ".", "a">>, TRUE, FALSE, TRUE, 24, 240, <<Zero>>),
           File(<<"a", ".", "a">>, TRUE, TRUE, FALSE, 24, 240, <<Zero>>),
           File(<<"a", ".", "a">>, TRUE, TRUE, TRUE, 24, 0, <<Zero>>),
           File(<<"a", ".", "a">>, TRUE, TRUE, TRUE, 24, 241, <<Zero>>),
           File(<<"a", ".", "a">>, TRUE, TRUE, TRUE, 24, 240 * MaxWindows, <<Zero, Tone(8)>>),
           File(<<"a", ".", "a">>, TRUE, TRUE, TRUE, 24, 240 * MaxWindows, <<Tone(3)>>) }

RECURSIVE SeqsUpTo(_, _)
SeqsUpTo(S, n) ==
    IF n = 0 THEN {<<>>}
    ELSE LET shorter == SeqsUpTo(S, n - 1)
         IN  shorter \cup {Append(q, x) : q \in shorter, x \in S}

\* the channels parse is checked on: a sampling rate of 24, 240 or 480 Hz;
\* silence of up to MaxWindows whole windows and a last window of a few
\* lengths; one sinusoid over 1, MaxWindows or ManyWindows whole windows
ManyWindows == FREQUENCY_MINIMUM_COUNT + 1

ZeroChannels(fs) ==
    { [fs |-> fs, samples |-> w * points_per_sample(fs) + extra, sig |-> Zero] :
        w \in 0..MaxWindows,
        extra \in {0, 1, points_per_sample(fs) \div 8,
                   (5 * points_per_sample(fs)) \div 8} }

ToneChannels(fs, F) ==
    { [fs |-> fs, samples |-> w * points_per_sample(fs), sig |-> Tone(f)] :
        w \in {1, MaxWindows, ManyWindows}, f \in F }

ChannelPool ==
    ZeroChannels(24) \cup ZeroChannels(240)
    \cup ToneChannels(24, {3, 8})
    \cup ToneChannels(240, {5, 80, 110, 115})
    \cup ToneChannels(480, {180})

CandPool == { <<1000, 1000>>, <<1030, 1030>>, <<1050, 1050>>, <<1040, 1080>> }

RECURSIVE Repeated(_, _)
Repeated(q, r) == IF r = 0 THEN <<>> ELSE q \o Repeated(q, r - 1)

BandPool == { <<lo, hi, 1>> : lo \in {100, 104, 130}, hi \in {100, 104, 130} }

----------------------------------------------------------------------------
(* Initial states.                                                         *)

IdleFiles ==
    /\ argv = <<>> /\ fidx = 1 /\ attempted = <<>> /\ written = <<>>
    /\ chan = 0 /\ signals_to_save = <<>>
    /\ filename = <<>> /\ output_filename = <<>>
IdleWindows ==
    /\ win_i = 0 /\ windows = <<>> /\ sel = NoSel /\ per_window = <<>>
IdleExtract == final = <<>> /\ ext_k = 0
IdleBandstop == bs_k = 0 /\ divisions = <<>> /\ filters = <<>>

\* the script started with argv
Init ==
    /\ pc = "start"
    /\ argv \in SeqsUpTo(FilePool, MaxFiles)
    /\ fidx = 1 /\ attempted = <<>> /\ written = <<>>
    /\ chan = 0 /\ signals_to_save = <<>>
    /\ filename = <<>> /\ output_filename = <<>>
    /\ error = "none"
    /\ snd = NoSnd
    /\ tie \in TiePool
    /\ IdleWindows
    /\ candidate_frequencies = <<>>
    /\ IdleExtract
    /\ bandstop_frequencies = <<>>
    /\ IdleBandstop

\* parse(sound_data, sndobj) called on a channel
InitParse ==
    /\ pc = "window"
    /\ IdleFiles
    /\ error = "none"
    /\ snd \in ChannelPool
    /\ tie \in TiePool
    /\ IdleWindows
    /\ candidate_frequencies = <<>>
    /\ IdleExtract
    /\ bandstop_frequencies = <<>>
    /\ IdleBandstop

\* extract_bandstop_frequencies(cand) called on a candidate list
InitExtract ==
    /\ pc = "extract"
    /\ IdleFiles
    /\ error = "none"
    /\ snd = NoSnd
    /\ tie = [low |-> "first", high |-> "first", order |-> "asc"]
    /\ IdleWindows
    /\ \E base \in SeqsUpTo(CandPool, MaxBase), r \in {1, Repeat} :
           candidate_frequencies = Repeated(base, r)
    /\ IdleExtract
    /\ bandstop_frequencies = <<>>
    /\ IdleBandstop

\* bandstop(frequencies, sound_data, sndobj) called on a list of bands
InitBandstop ==
    /\ pc = "bandstop"
    /\ IdleFiles
    /\ error = "none"
    /\ snd = [fs |-> 1000, samples |-> 10000, sig |-> Zero]
    /\ tie = [low |-> "first", high |-> "first", order |-> "asc"]
    /\ IdleWindows
    /\ candidate_frequencies = <<>>
    /\ IdleExtract
    /\ bandstop_frequencies \in SeqsUpTo(BandPool, MaxBands) \ {<<>>}
    /\ IdleBandstop

----------------------------------------------------------------------------
(* The script, lines 4-6 and 195-196, and process, lines 32-60.            *)

\* Sound(fs, snd) raises DepthException on an unsupported bit depth
DepthSupported(f) == f.depth_ok

\* lines 4-6: no file argument
Usage ==
    /\ pc = "start"
    /\ argv = <<>>
    /\ pc' = "exit"
    /\ error' = "usage"
    /\ UNCHANGED <<fileVars, nameVars, snd, tie, windowVars, candidate_frequencies,
                   extractVars, bandstop_frequencies, bandstopVars>>

\* lines 8-26: the imports, then the loop at line 195
Begin ==
    /\ pc = "start"
    /\ argv # <<>>
    /\ pc' = "loop"
    /\ UNCHANGED <<fileVars, nameVars, error, snd, tie, windowVars,
                   candidate_frequencies, extractVars, bandstop_frequencies,
                   bandstopVars>>

\* lines 195-196 and 33-50: process(filename) up to the channel loop.
\* wavfile.read raises on a file it cannot decode and nothing catches it;
\* a DepthException is caught, printed, and process returns.
ProcessRead ==
    /\ pc = "loop"
    /\ fidx <= Len(argv)
    /\ attempted' = Append(attempted, fidx)
    /\ LET f == argv[fidx]
       IN  IF ~f.readable
           THEN /\ pc' = "crash"
                /\ error' = "read"
                /\ UNCHANGED <<fidx, chan, signals_to_save>>
           ELSE IF ~DepthSupported(f)
                THEN /\ pc' = "loop"
                     /\ fidx' = fidx + 1
                     /\ UNCHANGED <<error, chan, signals_to_save>>
                ELSE /\ pc' = "channel"
                     /\ chan' = 0
                     /\ signals_to_save' = <<>>
                     /\ UNCHANGED <<error, fidx>>
    /\ UNCHANGED <<argv, written, nameVars, snd, tie, windowVars,
                   candidate_frequencies, extractVars, bandstop_frequencies,
                   bandstopVars>>

\* the loop at line 195 has run out of files
LoopDone ==
    /\ pc = "loop"
    /\ fidx > Len(argv)
    /\ pc' = "exit"
    /\ UNCHANGED <<fileVars, nameVars, error, snd, tie, windowVars,
                   candidate_frequencies, extractVars, bandstop_frequencies,
                   bandstopVars>>

\* lines 51-53: the next channel goes to parse (lines 160-164), or the
\* channel loop is over
ChannelNext ==
    /\ pc = "channel"
    /\ LET f == argv[fidx]
       IN  IF chan < Len(f.chans)
           THEN /\ pc' = "window"
                /\ snd' = [fs |-> f.fs, samples |-> f.samples, sig |-> f.chans[chan + 1]]
                /\ win_i' = 0 /\ windows' = <<>> /\ sel' = NoSel /\ per_window' = <<>>
                /\ candidate_frequencies' = <<>>
                /\ final' = <<>> /\ ext_k' = 0
                /\ bandstop_frequencies' = <<>>
                /\ bs_k' = 0 /\ divisions' = <<>> /\ filters' = <<>>
           ELSE /\ pc' = "save"
                /\ UNCHANGED <<snd, windowVars, candidate_frequencies, extractVars,
                               bandstop_frequencies, bandstopVars>>
    /\ UNCHANGED <<fileVars, nameVars, error, tie>>

\* line 54: the cleaned channel is stacked
ChannelDone ==
    /\ pc = "parsed"
    /\ signals_to_save' = Append(signals_to_save, filters)
    /\ chan' = chan + 1
    /\ pc' = "channel"
    /\ UNCHANGED <<argv, fidx, attempted, written, nameVars, error, snd, tie,
                   windowVars, candidate_frequencies, extractVars,
                   bandstop_frequencies, bandstopVars>>

\* lines 58-60: the output path, then wavfile.write, whose failure nothing catches
Save ==
    /\ pc = "save"
    /\ filename' = argv[fidx].name
    /\ output_filename' = gen_output_filename(argv[fidx].name)
    /\ IF ~argv[fidx].writable
       THEN /\ pc' = "crash"
            /\ error' = "write"
            /\ UNCHANGED <<written, fidx>>
       ELSE /\ pc' = "loop"
            /\ written' = Append(written, output_filename')
            /\ fidx' = fidx + 1
            /\ UNCHANGED error
    /\ UNCHANGED <<argv, attempted, chan, signals_to_save, snd, tie, windowVars,
                   candidate_frequencies, extractVars, bandstop_frequencies,
                   bandstopVars>>

----------------------------------------------------------------------------
(* parse, lines 159-193.                                                   *)

\* lines 165-181: one window.  The slice sound_data[i:i+points_per_sample]
\* holds what is left when fewer samples remain.
ParseWindow ==
    /\ pc = "window"
    /\ win_i < snd.samples
    /\ LET pps == points_per_sample(snd.fs)
           n == Min2(pps, snd.samples - win_i)
       IN  /\ windows' = Append(windows, <<win_i, n>>)
           /\ IF TooShort(snd, n)
              THEN /\ pc' = "crash"
                   /\ error' = "ValueError"
                   /\ UNCHANGED <<win_i, sel, per_window, candidate_frequencies>>
              ELSE \E r \in {find_outstanding_frequencies(snd, n, tie)} :
                       /\ sel' = r
                       /\ per_window' = Append(per_window, Len(r.ret))
                       /\ candidate_frequencies' = candidate_frequencies \o r.ret
                       /\ win_i' = win_i + pps
                       /\ UNCHANGED <<pc, error>>
    /\ UNCHANGED <<fileVars, nameVars, snd, tie, extractVars, bandstop_frequencies,
                   bandstopVars>>

\* the loop at line 165 is over; line 183 calls extract_bandstop_frequencies
WindowsDone ==
    /\ pc = "window"
    /\ win_i >= snd.samples
    /\ pc' = "extract"
    /\ UNCHANGED <<fileVars, nameVars, error, snd, tie, windowVars,
                   candidate_frequencies, extractVars, bandstop_frequencies,
                   bandstopVars>>

\* lines 105-109: np.array(cand) of an empty list has one dimension, and
\* candidates[:,1] raises IndexError on it
ExtractBegin ==
    /\ pc = "extract"
    /\ IF candidate_frequencies = <<>>
       THEN /\ pc' = "crash"
            /\ error' = "IndexError"
            /\ UNCHANGED extractVars
       ELSE /\ pc' = "cluster"
            /\ final' = <<>>
            /\ ext_k' = 0
            /\ UNCHANGED error
    /\ UNCHANGED <<fileVars, nameVars, snd, tie, windowVars, candidate_frequencies,
                   bandstop_frequencies, bandstopVars>>

\* lines 110-124: one candidate
ExtractStep ==
    /\ pc = "cluster"
    /\ ext_k < Len(candidate_frequencies)
    /\ final' = PlaceFrom(final, Expand(candidate_frequencies[ext_k + 1]), ext_k + 1, 1)
    /\ ext_k' = ext_k + 1
    /\ UNCHANGED <<pc, fileVars, nameVars, error, snd, tie, windowVars,
                   candidate_frequencies, bandstop_frequencies, bandstopVars>>

\* lines 126-133 and 183-192: the surviving bands; parse returns sound_data
\* itself when there is none, and calls bandstop otherwise
ExtractReturn ==
    /\ pc = "cluster"
    /\ ext_k = Len(candidate_frequencies)
    /\ bandstop_frequencies' = Surviving(final)
    /\ pc' = IF Surviving(final) = <<>> THEN "parsed" ELSE "bandstop"
    /\ bs_k' = 0 /\ divisions' = <<>> /\ filters' = <<>>
    /\ UNCHANGED <<fileVars, nameVars, error, snd, tie, windowVars,
                   candidate_frequencies, extractVars>>

\* lines 140-154: one band
BandstopStep ==
    /\ pc = "bandstop"
    /\ bs_k < Len(bandstop_frequencies)
    /\ LET b == BandstopOne(bandstop_frequencies[bs_k + 1], snd.fs)
       IN  /\ divisions' = divisions \o b.divisors
           /\ filters' = Append(filters, [w0 |-> b.w0, Q |-> b.Q])
    /\ bs_k' = bs_k + 1
    /\ UNCHANGED <<pc, fileVars, nameVars, error, snd, tie, windowVars,
                   candidate_frequencies, extractVars, bandstop_frequencies>>

\* line 155 and line 193
BandstopReturn ==
    /\ pc = "bandstop"
    /\ bs_k = Len(bandstop_frequencies)
    /\ pc' = "parsed"
    /\ UNCHANGED <<fileVars, nameVars, error, snd, tie, windowVars,
                   candidate_frequencies, extractVars, bandstop_frequencies,
                   bandstopVars>>

----------------------------------------------------------------------------
NextParse ==
    \/ ParseWindow \/ WindowsDone
    \/ ExtractBegin \/ ExtractStep \/ ExtractReturn
    \/ BandstopStep \/ BandstopReturn

Next ==
    \/ Usage \/ Begin \/ ProcessRead \/ LoopDone
    \/ ChannelNext \/ ChannelDone \/ Save
    \/ NextParse

NextExtract == ExtractBegin \/ ExtractStep \/ ExtractReturn

NextBandstop == BandstopStep \/ BandstopReturn

Spec == Init /\ [][Next]_vars
SpecParse == InitParse /\ [][NextParse]_vars
SpecExtract == InitExtract /\ [][NextExtract]_vars
SpecBandstop == InitBandstop /\ [][NextBandstop]_vars

----------------------------------------------------------------------------
(* Properties.                                                             *)

Range(q) == {q[k] : k \in 1..Len(q)}

RECURSIVE SumOver(_, _, _)
\* sum over the candidates with index in S of bound pos, widened by m
SumOver(S, pos, m) ==
    IF S = {} THEN 0
    ELSE LET k == CHOOSE x \in S : TRUE
         IN  candidate_frequencies[k][pos] + m + SumOver(S \ {k}, pos, m)

Members(j) == Range(final[j].members)

\* C1: every file argument is attempted, in argument order, whatever
\* happened to the files before it: when the script has ended, process was
\* called on files 1..n in that order.
C1_EveryFileAttempted ==
    pc \in {"exit", "crash"} => attempted = [k \in 1..Len(argv) |-> k]

ToneSearched ==
    LET pps == points_per_sample(snd.fs)
        bin == (snd.sig[1].f * pps) \div snd.fs
    IN  bin - 1 >= pps \div 4 /\ bin <= DiffLen(pps) - 1

OnlyToneCandidates ==
    \A k \in 1..Len(candidate_frequencies) :
        candidate_frequencies[k] = <<snd.sig[1].f - 1, snd.sig[1].f>>

Mid2(k) == candidate_frequencies[k][1] + candidate_frequencies[k][2]

SameCluster(a, b) == \E j \in 1..Len(final) : a \in Members(j) /\ b \in Members(j)

\* C3 as claimed: of the candidates consumed, any two whose midpoints differ
\* by less than 50 Hz are in one cluster and any two whose midpoints differ
\* by more than 50 Hz are in different clusters.
C3_PairwiseThreshold ==
    pc \in {"cluster", "parsed", "bandstop"} =>
      \A a \in 1..ext_k : \A b \in 1..ext_k :
         /\ Abs(Mid2(a) - Mid2(b)) < 2 * FREQUENCY_MAXIMUM_DIFFERENTIATING_DIFFERENCE
               => SameCluster(a, b)
         /\ Abs(Mid2(a) - Mid2(b)) > 2 * FREQUENCY_MAXIMUM_DIFFERENTIATING_DIFFERENCE
               => ~SameCluster(a, b)

\* the midpoint of candidate k is less than 50 Hz from the mean midpoint of
\* the candidates S (all widened by the margin, which moves no midpoint)
NearMean(k, S) ==
    Abs(Mid2(k) * Cardinality(S) - (SumOver(S, 1, 0) + SumOver(S, 2, 0)))
        < 100 * Cardinality(S)

\* C3, amended: a candidate is merged into the first cluster, in order of
\* creation, whose running-average midpoint at that moment is less than 50 Hz
\* from its own midpoint, and starts a cluster when there is none; so the
\* first two candidates of a list share a cluster exactly when their
\* midpoints differ by less than 50 Hz; and the bands returned are the
\* clusters holding more than 20 candidates, each judged on its own count.
C3_FirstMatchRunningAverage ==
    pc \in {"cluster", "parsed", "bandstop"} =>
      /\ \A j \in 1..Len(final) : \A m \in 1..Len(final[j].members) :
           LET k == final[j].members[m]
           IN  /\ m > 1 => NearMean(k, {final[j].members[x] : x \in 1..(m - 1)})
               /\ \A j2 \in 1..(j - 1) :
                    ~NearMean(k, {k2 \in Members(j2) : k2 < k})
      /\ ext_k >= 2 =>
           (SameCluster(1, 2) <=>
              Abs(Mid2(1) - Mid2(2)) < 2 * FREQUENCY_MAXIMUM_DIFFERENTIATING_DIFFERENCE)
      /\ pc \in {"parsed", "bandstop"} =>
           Len(bandstop_frequencies) =
             Cardinality({j \in 1..Len(final) :
                            Len(final[j].members) > FREQUENCY_MINIMUM_COUNT})

C3_Witness ==
    /\ pc \in {"parsed", "bandstop"}
    /\ Len(final) >= 2
    /\ bandstop_frequencies # <<>>
    /\ \E a \in 1..ext_k : \E b \in 1..ext_k :
         /\ Abs(Mid2(a) - Mid2(b)) < 2 * FREQUENCY_MAXIMUM_DIFFERENTIATING_DIFFERENCE
         /\ ~SameCluster(a, b)

\* C4: for a channel of silence every window emits no candidate, the
\* candidate list raises no error in the aggregator, and parse returns the
\* channel with no filter applied.
C4_SilenceInvariance ==
    (snd.sig = Zero /\ snd # NoSnd) =>
      /\ \A w \in 1..Len(per_window) : per_window[w] = 0
      /\ error # "IndexError"
      /\ pc \in {"bandstop", "parsed"} => bandstop_frequencies = <<>> /\ filters = <<>>

\* C5: when the window loop is over and no cluster holds more than 20
\* candidates (no candidate at all included), parse returns the channel
\* with no filter applied.
C5_NoBandNoFilter ==
    (/\ win_i >= snd.samples
     /\ pc \in {"parsed", "crash"}
     /\ error # "ValueError"
     /\ \A j \in 1..Len(final) : final[j].count <= FREQUENCY_MINIMUM_COUNT)
    => pc = "parsed" /\ filters = <<>>

\* C6: no division by a zero width is evaluated in bandstop, and the Q of
\* every filter is 2*center/max(|high-low|, 10).
C6_NoZeroWidthDivision ==
    /\ \A k \in 1..Len(divisions) : divisions[k][1] # 0
    /\ \A k \in 1..Len(filters) :
         LET ft == bandstop_frequencies[k]
             w == Max2(Abs(ft[2] - ft[1]), MinDist * ft[3])
         IN  filters[k].Q[1] * w = (ft[1] + ft[2]) * filters[k].Q[2]

\* C7: no file is written to the path of an input file.
C7_OutputNeverInput ==
    \A k \in 1..Len(written) : \A i \in 1..Len(argv) : written[k] # argv[i].name

\* C8: the windows parse visits are consecutive, cover the samples in
\* increasing order, and candidate extraction completes on each of them,
\* a short last one included.
C8_EveryWindowAnalysed ==
    /\ error # "ValueError"
    /\ \A w \in 1..Len(windows) :
         /\ windows[w][1] = (w - 1) * points_per_sample(snd.fs)
         /\ windows[w][2] = Min2(points_per_sample(snd.fs), snd.samples - windows[w][1])
         /\ windows[w][2] >= 1
    /\ pc \notin {"window", "crash"} /\ snd # NoSnd =>
         SumSeq([w \in 1..Len(windows) |-> windows[w][2]]) = snd.samples

\* the candidate a pair of Hz values makes
MinMax(x, y) == <<Min2(x, y), Max2(x, y)>>

\* C9 as claimed: a (falling, rising) pair of selected bins emits a candidate
\* exactly when the bin indexes differ by less than 50; candidates are
\* ordered and at most 9.
C9_BinIndexDifference ==
    sel # NoSel =>
      /\ Len(sel.ret) <= 9
      /\ \A k \in 1..Len(sel.ret) : sel.ret[k][1] <= sel.ret[k][2]
      /\ \A i \in 1..3 : \A j \in 1..3 :
           (Abs(sel.high_sel[i] - sel.low_sel[j]) < 50)
             <=> MinMax(sel.high_ind[i], sel.low_ind[j]) \in Range(sel.ret)

\* the (falling, rising) pairs whose Hz values differ by less than 50, in
\* the order of the loops
ClosePairs ==
    SelectSeq([p \in 1..9 |-> <<((p - 1) \div 3) + 1, ((p - 1) % 3) + 1>>],
              LAMBDA ij : Abs(sel.high_ind[ij[1]] - sel.low_ind[ij[2]]) < 50)

\* C9, amended: the selected bins are converted to Hz, index*fs//pps, and a
\* (falling, rising) pair emits a candidate exactly when the Hz values differ
\* by less than 50; each candidate is the pair of Hz values ordered
\* (min, max), and a window emits at most 9.
C9_HzDifference ==
    sel # NoSel =>
      /\ Len(sel.ret) <= 9
      /\ \A k \in 1..3 :
           /\ sel.low_ind[k] = (sel.low_sel[k] * snd.fs) \div points_per_sample(snd.fs)
           /\ sel.high_ind[k] = (sel.high_sel[k] * snd.fs) \div points_per_sample(snd.fs)
      /\ Len(sel.ret) = Len(ClosePairs)
      /\ \A k \in 1..Len(sel.ret) :
           /\ sel.ret[k] = MinMax(sel.high_ind[ClosePairs[k][1]], sel.low_ind[ClosePairs[k][2]])
           /\ sel.ret[k][1] <= sel.ret[k][2]

C9_Witness ==
    /\ sel # NoSel
    /\ Len(sel.ret) > 0 /\ Len(sel.ret) < 9
    /\ \E i \in 1..3 : \E j \in 1..3 :
         /\ Abs(sel.high_sel[i] - sel.low_sel[j]) >= 50
         /\ Abs(sel.high_ind[i] - sel.low_ind[j]) < 50

\* C10: when any prefix of the candidates is consumed, every candidate of the
\* prefix is in exactly one cluster, the counts add up to the length of the
\* prefix, each cluster's sums are the sums of (low - 50, high + 50) over its
\* members, and each band returned is a cluster's sums over its count (the
\* mean), at least 100 Hz wide.
C10_ClusterSums ==
    pc \in {"cluster", "parsed", "bandstop"} =>
      /\ SumSeq([j \in 1..Len(final) |-> final[j].count]) = ext_k
      /\ \A k \in 1..ext_k : Cardinality({j \in 1..Len(final) : k \in Members(j)}) = 1
      /\ \A j \in 1..Len(final) :
           /\ Members(j) \subseteq 1..ext_k
           /\ final[j].count = Cardinality(Members(j))
           /\ final[j].data[1] = SumOver(Members(j), 1, -50)
           /\ final[j].data[2] = SumOver(Members(j), 2, 50)
      /\ \A k \in 1..Len(bandstop_frequencies) :
           LET b == bandstop_frequencies[k]
           IN  /\ \E j \in 1..Len(final) :
                    b = <<final[j].data[1], final[j].data[2], final[j].count>>
               /\ b[2] - b[1] >= 100 * b[3]

C10_Witness ==
    /\ pc = "bandstop"
    /\ Len(final) >= 2
    /\ \E j \in 1..Len(final) : final[j].count > FREQUENCY_MINIMUM_COUNT
    /\ \E j \in 1..Len(final) : final[j].count > 1 /\ final[j].count <= FREQUENCY_MINIMUM_COUNT

====
